---------------------------- MODULE Spec2Model ----------------------------
(***************************************************************************)
(* The lint rule no-trigger-core-import of packages/eslint-plugin: the     *)
(* allow-list builder, the path helpers, the export graph walker           *)
(* (resolveExport inside resolveSpecifier) and the rule driver             *)
(* (create.ImportDeclaration).                                             *)
(*                                                                         *)
(* A string is the sequence of its lexemes: each "/" and each "." on its   *)
(* own, and the runs of characters between them (a run may be written in   *)
(* two pieces, as "f", "oo", where a prefix of it is looked for).          *)
(* startsWith, split, replace, join and the template literals are computed *)
(* on these sequences as the JavaScript computes them on characters; every *)
(* string of the model is written with the same lexemes wherever it        *)
(* occurs, so the two agree.  The empty sequence stands for every falsy    *)
(* value the code tests with `if (x)`: null, undefined and "".             *)
(***************************************************************************)
EXTENDS Naturals, Sequences, FiniteSets, TLC

VARIABLES
    exports,            \* key order of packageJson.exports (line 26)
    allowedBarrelFiles, \* module constant computed at load time (line 17)
    files,              \* path of every regular file -> its export statements
    pc,                 \* "load", "idle", "map", "enter", "barrel", "visit", "done", "threw"
    node,               \* the ImportDeclaration being handled (line 218)
    i,                  \* index of the specifier .map() is at (line 223)
    specifierFixes,     \* fix records collected so far (lines 222-234)
    barrelFile,         \* closure variable of resolveSpecifier (line 52)
    stack,              \* activation records of resolveExport (line 59)
    report,             \* what context.report was last called with (lines 243, 256)
    err,                \* the exception that ended the rule, "" when none
    visited,            \* history: the files the current walk has opened, in order
    walks,              \* history: per specifier handled, what its walk did
    lookup              \* the last call of tryResolveSourcePath made on its own (line 142)

vars == <<exports, allowedBarrelFiles, files, pc, node, i, specifierFixes,
          barrelFile, stack, report, err, visited, walks, lookup>>

-----------------------------------------------------------------------------
(* Bounds of the model.                                                    *)

\* export statements per source file, where the walker is exercised
MaxNodes == 2
\* export statements per source file, where the rule driver is exercised
MaxNodesRule == 1
\* named specifiers per import declaration
MaxSpecifiers == 2
\* keys of the manifest's exports map
MaxKeys == 2
\* resolveExport activations the engine's call stack holds before RangeError
MaxStack == 4

\* regular files present when tryResolveSourcePath is called on its own
MaxFiles == 3

-----------------------------------------------------------------------------
(* String literals of the source and of the modelled workspace.            *)

Undefined == <<>>

baseName == <<"@trigger", ".", "dev", "/", "core">>

blockedImportSources == << baseName, baseName \o <<"/", "v3">> >>

srcMarker == <<"packages", "/", "core", "/", "src", "/">>

packageJsonKey == <<"package", ".", "json">>

indexTs == <<"index", ".", "ts">>

possibleExtensions ==
    << <<>>, <<".", "ts">>, <<".", "tsx">>, <<".", "js">>, <<".", "jsx">> >>

possibleIndexFiles ==
    << indexTs, <<"index", ".", "tsx">>, <<"index", ".", "js">>, <<"index", ".", "jsx">> >>

-----------------------------------------------------------------------------
(* String and path primitives (String.prototype and node's path module).   *)

\* s.startsWith(p)
StartsWith(s, p) == Len(p) <= Len(s) /\ SubSeq(s, 1, Len(p)) = p

\* 1-based s.indexOf(p), 0 when p does not occur
IndexOf(s, p) ==
    LET hits == {k \in 1..(Len(s) + 1) : k + Len(p) - 1 <= Len(s) /\ SubSeq(s, k, k + Len(p) - 1) = p}
    IN IF hits = {} THEN 0 ELSE CHOOSE k \in hits : \A l \in hits : k <= l

\* s contains p as a substring
Includes(s, p) == IndexOf(s, p) # 0

RECURSIVE CountOf(_, _)
\* number of non-overlapping occurrences of p in s
CountOf(s, p) ==
    LET k == IndexOf(s, p)
    IN IF k = 0 \/ Len(p) = 0 THEN 0
       ELSE 1 + CountOf(SubSeq(s, k + Len(p), Len(s)), p)

RECURSIVE Split(_)
\* s.split("/")
Split(s) ==
    LET k == IndexOf(s, <<"/">>)
    IN IF k = 0 THEN <<s>>
       ELSE <<SubSeq(s, 1, k - 1)>> \o Split(SubSeq(s, k + 1, Len(s)))

RECURSIVE Normalize(_, _)
\* the segments of an absolute path with "", "." and ".." resolved
Normalize(segs, acc) ==
    IF segs = <<>> THEN acc
    ELSE LET h == Head(segs)
         IN IF h = <<>> \/ h = <<".">> THEN Normalize(Tail(segs), acc)
            ELSE IF h = <<".", ".">>
                 THEN Normalize(Tail(segs),
                                IF acc = <<>> THEN acc ELSE SubSeq(acc, 1, Len(acc) - 1))
                 ELSE Normalize(Tail(segs), Append(acc, h))

RECURSIVE JoinSegs(_)
JoinSegs(segs) ==
    IF segs = <<>> THEN <<>> ELSE <<"/">> \o Head(segs) \o JoinSegs(Tail(segs))

AbsPath(segs) == IF segs = <<>> THEN <<"/">> ELSE JoinSegs(segs)

\* path.resolve(base, rel) for an absolute base
pathResolve(base, rel) ==
    IF rel # <<>> /\ Head(rel) = "/"
    THEN AbsPath(Normalize(Split(rel), <<>>))
    ELSE AbsPath(Normalize(Split(base \o <<"/">> \o rel), <<>>))

\* path.join(a, b) for an absolute a
pathJoin(a, b) == AbsPath(Normalize(Split(a \o <<"/">> \o b), <<>>))

\* path.dirname(p) for an absolute p
pathDirname(p) ==
    LET segs == Normalize(Split(p), <<>>)
    IN IF segs = <<>> THEN <<"/">> ELSE AbsPath(SubSeq(segs, 1, Len(segs) - 1))

\* array.includes(x)
SeqIncludes(seq, x) == \E k \in 1..Len(seq) : seq[k] = x

-----------------------------------------------------------------------------
(* The modelled workspace: the lint runs in /apps/webapp, the target       *)
(* package's sources are in /packages/core/src.                            *)

Cwd == <<"/", "apps", "/", "webapp">>

CoreDir == <<"/", "packages", "/", "core">>

SrcDir == CoreDir \o <<"/", "src">>

V3Dir == SrcDir \o <<"/", "v3">>

RootIndexFile == SrcDir \o <<"/">> \o indexTs

V3IndexFile == V3Dir \o <<"/">> \o indexTs

FooFile == V3Dir \o <<"/", "f", "oo", ".", "ts">>

\* the directories of the workspace; the regular files are the domain of files
Directories == { <<"/">>, <<"/", "packages">>, CoreDir, SrcDir, V3Dir }

\* fs.existsSync(p)
existsSync(p) == p \in DOMAIN files \/ p \in Directories

\* fs.lstatSync(p).isDirectory(); lstatSync throws ENOENT when p does not exist
isDirectory(p) == p \in Directories

symFoo == <<"Foo">>

symBar == <<"Bar">>

textFooAsF == <<"Foo", " as ", "F">>

textStarAsCore == <<"* as ", "core">>

srcV3 == <<".", "/", "v3">>

srcFoo == <<".", "/", "f", "oo">>

srcIndex == <<".", "/", "index">>

keyRoot == <<".">>

keyV3 == <<".", "/", "v3">>

keyV3Foo == <<".", "/", "v3", "/", "f", "oo">>

keyV3F == <<".", "/", "v3", "/", "f">>

keyV3Index == <<".", "/", "v3", "/", "index">>

keyPackageJson == <<".", "/">> \o packageJsonKey

keyImport == <<"import">>

-----------------------------------------------------------------------------
(* Syntax trees.  A source file is the sequence of its top-level export    *)
(* statements in textual order, which is the order babel's traverse visits *)
(* them in.  Only the fields the visitors read are kept.                   *)

\* export const|function|class <name> ...
ExportDeclaration(declType, name) ==
    [type |-> "ExportNamedDeclaration", declaration |-> declType, names |-> <<name>>,
     specifiers |-> <<>>, hasSource |-> FALSE, source |-> <<>>]

\* export { <exported names> } from "<source>"
ExportFrom(exported, source) ==
    [type |-> "ExportNamedDeclaration", declaration |-> "", names |-> <<>>,
     specifiers |-> exported, hasSource |-> TRUE, source |-> source]

\* export { <exported names> }   (node.source is null)
ExportLocal(exported) ==
    [type |-> "ExportNamedDeclaration", declaration |-> "", names |-> <<>>,
     specifiers |-> exported, hasSource |-> FALSE, source |-> <<>>]

\* export * from "<source>"
ExportAll(source) ==
    [type |-> "ExportAllDeclaration", declaration |-> "", names |-> <<>>,
     specifiers |-> <<>>, hasSource |-> TRUE, source |-> source]

\* import { <original> } ...: imported is the imported name, original the
\* specifier's source text; a namespace or default specifier has no .imported
ImportSpecifier(imported, original) ==
    [named |-> TRUE, imported |-> imported, original |-> original]

ImportNamespaceSpecifier(original) ==
    [named |-> FALSE, imported |-> <<>>, original |-> original]

-----------------------------------------------------------------------------
(* Helpers of the rule (lines 16-46, 142-192).                             *)

\* key.replace(/^\.\/?/, "")
stripDotSlash(key) ==
    IF key # <<>> /\ Head(key) = "."
    THEN IF Len(key) >= 2 /\ key[2] = "/" THEN SubSeq(key, 3, Len(key)) ELSE Tail(key)
    ELSE key

\* ["@trigger.dev/core", key].filter(Boolean).join("/")
joinToBase(key) == IF key = <<>> THEN baseName ELSE baseName \o <<"/">> \o key

RECURSIVE allowedFiles(_)
\* the loop of lines 28-36 over the keys of packageJson.exports
allowedFiles(keys) ==
    IF keys = <<>> THEN <<>>
    ELSE LET key == stripDotSlash(Head(keys))
         IN IF key = packageJsonKey THEN allowedFiles(Tail(keys))
            ELSE <<joinToBase(key)>> \o allowedFiles(Tail(keys))

\* line 39 left out: the blocked import sources are kept
getAllowedBarrelFiles_keepBlocked(packageJsonExports) == allowedFiles(packageJsonExports)

getAllowedBarrelFiles(packageJsonExports) ==
    SelectSeq(allowedFiles(packageJsonExports),
              LAMBDA file : ~SeqIncludes(blockedImportSources, file))

\* filePath.split("packages/core/src/")[1] is undefined when the marker is absent
hasCorePath(filePath) == Includes(filePath, srcMarker)

pathToCorePath(filePath) ==
    LET k == IndexOf(filePath, srcMarker)
        rest == SubSeq(filePath, k + Len(srcMarker), Len(filePath))
        l == IndexOf(rest, srcMarker)
        piece == IF l = 0 THEN rest ELSE SubSeq(rest, 1, l - 1)
        relativePath == [c \in 1..Len(piece) |-> IF piece[c] = "\\" THEN "/" ELSE piece[c]]
    IN baseName \o <<"/">> \o relativePath

tryResolveSourcePath(baseDir, sourcePath) ==
    LET withExt == {e \in 1..Len(possibleExtensions) :
                        existsSync(pathResolve(baseDir, sourcePath \o possibleExtensions[e]))}
        dirPath == pathResolve(baseDir, sourcePath)
        withIndex == {x \in 1..Len(possibleIndexFiles) :
                        existsSync(pathJoin(dirPath, possibleIndexFiles[x]))}
    IN IF withExt # {}
       THEN pathResolve(baseDir, sourcePath \o
                possibleExtensions[CHOOSE e \in withExt : \A f \in withExt : e <= f])
       ELSE IF existsSync(dirPath) /\ isDirectory(dirPath) /\ withIndex # {}
            THEN pathJoin(dirPath,
                     possibleIndexFiles[CHOOSE x \in withIndex : \A y \in withIndex : x <= y])
            ELSE Undefined

\* tsconfig-paths' matchPath under the workspace's path table, which maps
\* @trigger.dev/core and @trigger.dev/core/* into packages/core/src: the mapped
\* location when it exists, undefined otherwise
matchPath(sourcePath) ==
    IF StartsWith(sourcePath, baseName)
    THEN LET mapped == pathJoin(SrcDir, SubSeq(sourcePath, Len(baseName) + 1, Len(sourcePath)))
         IN IF existsSync(mapped) THEN mapped ELSE Undefined
    ELSE Undefined

resolveModulePath(sourcePath) ==
    LET resolvedPath == matchPath(sourcePath)
        indexResolvedPath == pathJoin(resolvedPath, indexTs)
    IN IF resolvedPath # Undefined
       THEN IF existsSync(resolvedPath) /\ isDirectory(resolvedPath) /\ existsSync(indexResolvedPath)
            THEN indexResolvedPath
            ELSE resolvedPath
       ELSE pathResolve(Cwd, sourcePath)

-----------------------------------------------------------------------------
(* resolveSpecifier and the walker resolveExport (lines 48-140), one       *)
(* activation record per call of resolveExport.                            *)

Frame(fileOrDir) ==
    [fileOrDir |-> fileOrDir, filePath |-> Undefined, k |-> 1, idx |-> 1, sp |-> 1,
     foundPath |-> Undefined]

Top == stack[Len(stack)]

SetTop(f) == [stack EXCEPT ![Len(stack)] = f]

\* the symbol name passed down every call of resolveExport
specifier == node.specifiers[i].imported

\* lines 108-110 and 126
dirOf(fileOrDir) == IF isDirectory(fileOrDir) THEN fileOrDir ELSE pathDirname(fileOrDir)

\* lines 68-70: one iteration of the allow-list loop
recordBarrel_firstWins(current, filePath, allowedBarrelFile) ==
    IF current = Undefined /\ StartsWith(pathToCorePath(filePath), allowedBarrelFile)
    THEN allowedBarrelFile
    ELSE current

recordBarrel(current, filePath, allowedBarrelFile) ==
    IF StartsWith(pathToCorePath(filePath), allowedBarrelFile)
    THEN allowedBarrelFile
    ELSE current

\* lines 54-57: what resolveSpecifier returns
resolveSpecifierResult_path(resolvedPath, barrel) ==
    IF resolvedPath # Undefined THEN pathToCorePath(resolvedPath) ELSE Undefined

resolveSpecifierResult(resolvedPath, barrel) ==
    IF resolvedPath # Undefined THEN barrel ELSE Undefined

\* lines 81-103: does the declaration of an export statement declare the name
declares(st, name) ==
    /\ st.declaration \in {"VariableDeclaration", "FunctionDeclaration", "ClassDeclaration"}
    /\ SeqIncludes(st.names, name)

\* lines 114-118 and 130-133: the caller's record once the recursive call returned
afterCall_returnsOwnPath(caller, st, resolvedExport) ==
    IF st.type = "ExportAllDeclaration"
    THEN [caller EXCEPT !.foundPath = IF resolvedExport # Undefined THEN caller.filePath ELSE @,
                        !.idx = @ + 1]
    ELSE IF resolvedExport # Undefined
         THEN [caller EXCEPT !.foundPath = caller.filePath, !.idx = @ + 1, !.sp = 1]
         ELSE [caller EXCEPT !.sp = @ + 1]

afterCall(caller, st, resolvedExport) ==
    IF st.type = "ExportAllDeclaration"
    THEN [caller EXCEPT !.foundPath = IF resolvedExport # Undefined THEN resolvedExport ELSE @,
                        !.idx = @ + 1]
    ELSE IF resolvedExport # Undefined
         THEN [caller EXCEPT !.foundPath = resolvedExport, !.idx = @ + 1, !.sp = 1]
         ELSE [caller EXCEPT !.sp = @ + 1]

\* an exception leaves the rule; nothing catches it
Throw(e) ==
    /\ pc' = "threw"
    /\ err' = e
    /\ UNCHANGED <<exports, allowedBarrelFiles, files, node, i, specifierFixes,
                   barrelFile, stack, report, visited, walks, lookup>>

\* a call of resolveExport: lines 53, 114 and 130
Call(fileOrDir) ==
    IF Len(stack) >= MaxStack
    THEN Throw("RangeError")
    ELSE /\ stack' = Append(stack, Frame(fileOrDir))
         /\ pc' = "enter"
         /\ UNCHANGED <<exports, allowedBarrelFiles, files, node, i, specifierFixes,
                        barrelFile, report, err, visited, walks, lookup>>

\* `return` of resolveExport (lines 64 and 138): to the call site it came from
ReturnWith(result) ==
    IF Len(stack) = 1
    THEN LET value == resolveSpecifierResult(result, barrelFile)
             s == node.specifiers[i]
         IN /\ stack' = <<>>
            /\ pc' = "map"
            /\ i' = i + 1
            /\ specifierFixes' =
                   IF value # Undefined
                   THEN Append(specifierFixes, [original |-> s.original, path |-> value])
                   ELSE specifierFixes
            /\ walks' = Append(walks, [imported |-> s.imported, original |-> s.original,
                                       resolvedPath |-> result, barrelFile |-> barrelFile,
                                       visited |-> visited])
            /\ UNCHANGED <<exports, allowedBarrelFiles, files, node, barrelFile,
                           report, err, visited, lookup>>
    ELSE LET caller == stack[Len(stack) - 1]
             st == files[caller.filePath][caller.idx]
         IN /\ stack' = Append(SubSeq(stack, 1, Len(stack) - 2), afterCall(caller, st, result))
            /\ pc' = "visit"
            /\ UNCHANGED <<exports, allowedBarrelFiles, files, node, i, specifierFixes,
                           barrelFile, report, err, visited, walks, lookup>>

\* lines 60-64
Enter ==
    /\ pc = "enter"
    /\ LET fileOrDir == Top.fileOrDir
           filePath == IF isDirectory(fileOrDir) THEN pathJoin(fileOrDir, indexTs) ELSE fileOrDir
       IN IF ~existsSync(fileOrDir)
          THEN Throw("ENOENT")
          ELSE IF ~existsSync(filePath)
               THEN ReturnWith(Undefined)
               ELSE /\ stack' = SetTop([Top EXCEPT !.filePath = filePath])
                    /\ visited' = Append(visited, filePath)
                    /\ pc' = "barrel"
                    /\ UNCHANGED <<exports, allowedBarrelFiles, files, node, i,
                                   specifierFixes, barrelFile, report, err, walks, lookup>>

\* lines 67-71, one allow-list entry per step
BarrelCheck ==
    /\ pc = "barrel"
    /\ Top.k <= Len(allowedBarrelFiles)
    /\ IF ~hasCorePath(Top.filePath)
       THEN Throw("TypeError")
       ELSE /\ barrelFile' = recordBarrel(barrelFile, Top.filePath, allowedBarrelFiles[Top.k])
            /\ stack' = SetTop([Top EXCEPT !.k = @ + 1])
            /\ UNCHANGED <<exports, allowedBarrelFiles, files, pc, node, i,
                           specifierFixes, report, err, visited, walks, lookup>>

\* lines 73-76
Parse ==
    /\ pc = "barrel"
    /\ Top.k > Len(allowedBarrelFiles)
    /\ IF Top.filePath \notin DOMAIN files
       THEN Throw("EISDIR")
       ELSE /\ pc' = "visit"
            /\ UNCHANGED <<exports, allowedBarrelFiles, files, node, i, specifierFixes,
                           barrelFile, stack, report, err, visited, walks, lookup>>

\* lines 79-123
ExportNamedDeclaration ==
    /\ pc = "visit"
    /\ Top.idx <= Len(files[Top.filePath])
    /\ LET st == files[Top.filePath][Top.idx]
       IN /\ st.type = "ExportNamedDeclaration"
          /\ IF st.declaration # ""
             THEN /\ stack' = SetTop([Top EXCEPT
                                        !.foundPath = IF declares(st, specifier)
                                                      THEN Top.filePath ELSE @,
                                        !.idx = @ + 1])
                  /\ UNCHANGED <<exports, allowedBarrelFiles, files, pc, node, i,
                                 specifierFixes, barrelFile, report, err, visited, walks, lookup>>
             ELSE IF Top.sp > Len(st.specifiers)
                  THEN /\ stack' = SetTop([Top EXCEPT !.idx = @ + 1, !.sp = 1])
                       /\ UNCHANGED <<exports, allowedBarrelFiles, files, pc, node, i,
                                      specifierFixes, barrelFile, report, err, visited, walks, lookup>>
                  ELSE IF st.specifiers[Top.sp] = specifier
                       THEN IF ~st.hasSource
                            THEN Throw("TypeError")
                            ELSE LET resolvedSourcePath ==
                                         tryResolveSourcePath(dirOf(Top.fileOrDir), st.source)
                                 IN IF resolvedSourcePath # Undefined
                                    THEN Call(resolvedSourcePath)
                                    ELSE /\ stack' = SetTop([Top EXCEPT !.sp = @ + 1])
                                         /\ UNCHANGED <<exports, allowedBarrelFiles, files, pc, node, i, specifierFixes,
                                                        barrelFile, report, err, visited,
                                                        walks, lookup>>
                       ELSE /\ stack' = SetTop([Top EXCEPT !.sp = @ + 1])
                            /\ UNCHANGED <<exports, allowedBarrelFiles, files, pc, node,
                                           i, specifierFixes, barrelFile, report, err,
                                           visited, walks, lookup>>

\* lines 124-135
ExportAllDeclaration ==
    /\ pc = "visit"
    /\ Top.idx <= Len(files[Top.filePath])
    /\ LET st == files[Top.filePath][Top.idx]
           resolvedSourcePath == tryResolveSourcePath(dirOf(Top.fileOrDir), st.source)
       IN /\ st.type = "ExportAllDeclaration"
          /\ IF resolvedSourcePath # Undefined
             THEN Call(resolvedSourcePath)
             ELSE /\ stack' = SetTop([Top EXCEPT !.idx = @ + 1])
                  /\ UNCHANGED <<exports, allowedBarrelFiles, files, pc, node, i,
                                 specifierFixes, barrelFile, report, err, visited, walks, lookup>>

\* line 138, once traverse has visited every statement
Return ==
    /\ pc = "visit"
    /\ Top.idx > Len(files[Top.filePath])
    /\ ReturnWith(Top.foundPath)

-----------------------------------------------------------------------------
(* The rule driver create.ImportDeclaration (lines 216-266) and the load   *)
(* of the rule module (line 17).                                           *)

NoReport == [messageId |-> "", hasFix |-> FALSE, fix |-> <<>>, resolvedPath |-> <<>>]

NoNode == [source |-> <<>>, specifiers |-> <<>>]

\* no call of tryResolveSourcePath has been made on its own yet
NoLookup == [called |-> FALSE, baseDir |-> <<>>, sourcePath |-> <<>>, result |-> <<>>]

fixOpen == <<"import { ">>

fixMid == <<" } from '">>

fixClose == <<"';">>

RECURSIVE Join(_, _)
\* array.join(sep)
Join(seq, sep) ==
    IF seq = <<>> THEN <<>>
    ELSE IF Len(seq) = 1 THEN seq[1]
         ELSE seq[1] \o sep \o Join(Tail(seq), sep)

RECURSIVE Distinct(_, _)
\* Array.from(new Set(seq)): first occurrences, in order
Distinct(seq, acc) ==
    IF seq = <<>> THEN acc
    ELSE Distinct(Tail(seq), IF SeqIncludes(acc, Head(seq)) THEN acc ELSE Append(acc, Head(seq)))

\* line 239
importStatement(fix) == fixOpen \o fix.original \o fixMid \o fix.path \o fixClose

\* lines 237-241: the replacement text
fixesText_firstOnly(fixes) == importStatement(fixes[1])

fixesText(fixes) ==
    Join([f \in 1..Len(fixes) |-> importStatement(fixes[f])], <<"\n">>)

\* lines 236-263: the diagnostic reported for the fix records collected
reportFor_always(fixes) ==
    [messageId |-> "noTriggerCoreImportFixable", hasFix |-> TRUE,
     fix |-> IF Len(fixes) > 0 THEN fixesText(fixes) ELSE <<>>,
     resolvedPath |-> Join(Distinct([f \in 1..Len(fixes) |-> fixes[f].path], <<>>),
                           <<", ">>)]

reportFor(fixes) ==
    IF Len(fixes) > 0
    THEN [messageId |-> "noTriggerCoreImportFixable", hasFix |-> TRUE,
          fix |-> fixesText(fixes),
          resolvedPath |-> Join(Distinct([f \in 1..Len(fixes) |-> fixes[f].path], <<>>),
                                <<", ">>)]
    ELSE [messageId |-> "noTriggerCoreImport", hasFix |-> FALSE, fix |-> <<>>,
          resolvedPath |-> <<>>]

\* line 17: const allowedBarrelFiles = getAllowedBarrelFiles()
LoadModule ==
    /\ pc = "load"
    /\ allowedBarrelFiles' = getAllowedBarrelFiles(exports)
    /\ pc' = "idle"
    /\ UNCHANGED <<exports, files, node, i, specifierFixes, barrelFile, stack,
                   report, err, visited, walks, lookup>>

\* lines 218-222: the visitor is entered for an import declaration
ImportDeclaration(n) ==
    /\ pc = "idle"
    /\ node' = n
    /\ report' = NoReport
    /\ specifierFixes' = <<>>
    /\ walks' = <<>>
    /\ visited' = <<>>
    /\ barrelFile' = Undefined
    /\ IF SeqIncludes(blockedImportSources, n.source)
       THEN pc' = "map" /\ i' = 1
       ELSE pc' = "done" /\ i' = 0
    /\ UNCHANGED <<exports, allowedBarrelFiles, files, stack, err, lookup>>

\* lines 223-225 and 49-53: the next specifier is handed to resolveSpecifier
MapSpecifier ==
    /\ pc = "map"
    /\ i <= Len(node.specifiers)
    /\ IF ~node.specifiers[i].named
       THEN Throw("TypeError")
       ELSE LET corePath == resolveModulePath(node.source)
                coreDir == pathDirname(corePath)
            IN /\ barrelFile' = Undefined
               /\ visited' = <<>>
               /\ stack' = <<Frame(coreDir)>>
               /\ pc' = "enter"
               /\ UNCHANGED <<exports, allowedBarrelFiles, files, node, i,
                              specifierFixes, report, err, walks, lookup>>

\* lines 236-263
Report ==
    /\ pc = "map"
    /\ i > Len(node.specifiers)
    /\ report' = reportFor(specifierFixes)
    /\ pc' = "done"
    /\ UNCHANGED <<exports, allowedBarrelFiles, files, node, i, specifierFixes,
                   barrelFile, stack, err, visited, walks, lookup>>

\* lines 142-164: tryResolveSourcePath called with baseDir and sourcePath
ResolveSourcePath(baseDir, sourcePath) ==
    /\ lookup' = [called |-> TRUE, baseDir |-> baseDir, sourcePath |-> sourcePath,
                  result |-> tryResolveSourcePath(baseDir, sourcePath)]
    /\ UNCHANGED <<exports, allowedBarrelFiles, files, pc, node, i, specifierFixes,
                   barrelFile, stack, report, err, visited, walks>>

-----------------------------------------------------------------------------
(* The inputs: manifests, file systems and import declarations.            *)

\* the sequences without repetition of at most n elements of S
Arrangements(S, n) ==
    UNION {{q \in [1..m -> S] : \A a, b \in 1..m : a # b => q[a] # q[b]} : m \in 0..n}

ExportKeys ==
    {keyRoot, keyV3, keyV3Foo, keyV3F, keyV3Index, keyPackageJson, packageJsonKey, keyImport}

Manifests == Arrangements(ExportKeys, MaxKeys)

\* the manifests the walker is run under
WalkManifests == Arrangements({keyV3Index, keyV3Foo, keyV3F}, MaxKeys)

\* the manifests the rule driver is run under
RuleManifests == Arrangements({keyV3Index, keyV3Foo}, MaxKeys)

RootIndexStatements == {ExportAll(srcV3)}

\* the statements of v3/index.ts that concern Foo
WalkV3IndexStatements ==
    {ExportAll(srcFoo), ExportFrom(<<symFoo>>, srcFoo), ExportLocal(<<symFoo>>),
     ExportDeclaration("VariableDeclaration", symFoo)}

V3IndexStatements == WalkV3IndexStatements \cup {ExportDeclaration("ClassDeclaration", symBar)}

FooStatements == {ExportDeclaration("FunctionDeclaration", symFoo), ExportAll(srcIndex)}

Absent ==
    <<[type |-> "absent", declaration |-> "", names |-> <<>>, specifiers |-> <<>>,
       hasSource |-> FALSE, source |-> <<>>]>>

\* a file is absent, or holds at most n of its candidate statements
Contents(statements, n) == {Absent} \cup Arrangements(statements, n)

FileSystem(root, v3, foo) ==
    LET body == (RootIndexFile :> root) @@ (V3IndexFile :> v3) @@ (FooFile :> foo)
        present == {f \in DOMAIN body : body[f] # Absent}
    IN [f \in present |-> body[f]]

FileSystems(v3Statements, n) ==
    {FileSystem(root, v3, foo) : root \in Contents(RootIndexStatements, n),
                                 v3 \in Contents(v3Statements, n),
                                 foo \in Contents(FooStatements, n)}

ImportSpecifiers ==
    {ImportSpecifier(symFoo, symFoo), ImportSpecifier(symFoo, textFooAsF),
     ImportSpecifier(symBar, symBar)}

\* import { Foo } from "@trigger.dev/core" and from "@trigger.dev/core/v3"
WalkImportNodes ==
    {[source |-> src, specifiers |-> <<ImportSpecifier(symFoo, symFoo)>>] :
        src \in {blockedImportSources[1], blockedImportSources[2]}}

ImportNodes ==
    {[source |-> blockedImportSources[2], specifiers |-> l] :
        l \in Arrangements(ImportSpecifiers, MaxSpecifiers)}
    \cup WalkImportNodes
    \cup {[source |-> blockedImportSources[1],
           specifiers |-> <<ImportNamespaceSpecifier(textStarAsCore)>>],
          [source |-> <<"zod">>, specifiers |-> <<ImportSpecifier(symFoo, symFoo)>>]}

-----------------------------------------------------------------------------
(* Specifications.                                                         *)

InitWith(manifests, fileSystems) ==
    /\ exports \in manifests
    /\ allowedBarrelFiles = <<>>
    /\ files \in fileSystems
    /\ pc = "load"
    /\ node = NoNode
    /\ i = 0
    /\ specifierFixes = <<>>
    /\ barrelFile = Undefined
    /\ stack = <<>>
    /\ report = NoReport
    /\ err = ""
    /\ visited = <<>>
    /\ walks = <<>>
    /\ lookup = NoLookup

\* the steps of the walker, from the call in resolveSpecifier to its return
Walk ==
    \/ Enter
    \/ BarrelCheck
    \/ Parse
    \/ ExportNamedDeclaration
    \/ ExportAllDeclaration
    \/ Return

\* the rule driver handling one import declaration
Init == InitWith(RuleManifests, FileSystems(V3IndexStatements, MaxNodesRule))

Next ==
    \/ LoadModule
    \/ \E n \in ImportNodes : ImportDeclaration(n)
    \/ MapSpecifier
    \/ Walk
    \/ Report

Spec == Init /\ [][Next]_vars

\* the walker resolving one symbol, over the larger file systems
InitWalk == InitWith(WalkManifests, FileSystems(WalkV3IndexStatements, MaxNodes))

NextWalk ==
    \/ LoadModule
    \/ \E n \in WalkImportNodes : ImportDeclaration(n)
    \/ MapSpecifier
    \/ Walk
    \/ Report

SpecWalk == InitWalk /\ [][NextWalk]_vars

\* the load of the rule module alone, under every manifest
InitLoad == InitWith(Manifests, {FileSystem(Absent, Absent, Absent)})

NextLoad == LoadModule

SpecLoad == InitLoad /\ [][NextLoad]_vars

\* the regular files that may lie next to and inside the directory v3: v3.ts,
\* v3/index.ts, v3/index.tsx, v3/index.jsx, v3/foo, v3/foo.ts, v3/foo.js
ResolvePaths ==
    {SrcDir \o <<"/", "v3", ".", "ts">>,
     V3IndexFile,
     V3Dir \o <<"/", "index", ".", "tsx">>,
     V3Dir \o <<"/", "index", ".", "jsx">>,
     V3Dir \o <<"/", "f", "oo">>,
     FooFile,
     V3Dir \o <<"/", "f", "oo", ".", "js">>}

\* the file systems holding at most n of these files, their contents left empty
ResolveFileSystems(n) ==
    {[f \in present |-> <<>>] : present \in {P \in SUBSET ResolvePaths : Cardinality(P) <= n}}

ResolveBaseDirs == {SrcDir, V3Dir}

ResolveSources == {srcV3, srcFoo, srcIndex}

\* tryResolveSourcePath alone, under every such file system
InitResolve == InitWith({<<>>}, ResolveFileSystems(MaxFiles))

NextResolve ==
    \E baseDir \in ResolveBaseDirs, sourcePath \in ResolveSources :
        ResolveSourcePath(baseDir, sourcePath)

SpecResolve == InitResolve /\ [][NextResolve]_vars

-----------------------------------------------------------------------------
(* The export graph, as the claims speak of it.                            *)

\* the file resolveExport opens when called with p
openedFile(p) == IF isDirectory(p) THEN pathJoin(p, indexTs) ELSE p

\* file f holds `export const|function|class name`
DeclaredIn(f, name) ==
    \E k \in 1..Len(files[f]) :
        /\ files[f][k].declaration \in
               {"VariableDeclaration", "FunctionDeclaration", "ClassDeclaration"}
        /\ \E d \in 1..Len(files[f][k].names) : files[f][k].names[d] = name

\* file f holds `export { name }` with no `from`
LocallyExportedIn(f, name) ==
    \E k \in 1..Len(files[f]) :
        /\ files[f][k].type = "ExportNamedDeclaration"
        /\ files[f][k].declaration = ""
        /\ ~files[f][k].hasSource
        /\ SeqIncludes(files[f][k].specifiers, name)

\* the files that f re-exports name from: `export { name } from` and `export * from`
LinkTargets(f, name) ==
    {openedFile(tryResolveSourcePath(pathDirname(f), files[f][k].source)) :
        k \in {l \in 1..Len(files[f]) :
                 /\ files[f][l].hasSource
                 /\ \/ files[f][l].type = "ExportAllDeclaration"
                    \/ SeqIncludes(files[f][l].specifiers, name)}}
    \cap DOMAIN files

RECURSIVE ReachIn(_, _, _)
ReachIn(S, name, n) ==
    IF n = 0 THEN S
    ELSE ReachIn(S \cup UNION {LinkTargets(f, name) : f \in S}, name, n - 1)

\* the files reachable from the files of S through re-exports of name, S included
Reach(S, name) == ReachIn(S \cap DOMAIN files, name, Cardinality(DOMAIN files))

\* no file reachable from f re-exports name, directly or not, from itself
Acyclic(f, name) ==
    \A g \in Reach({f}, name) : g \notin Reach(LinkTargets(g, name), name)

\* re-exports lead from a to c, c is the one reachable file declaring name, and
\* nothing reachable exports name without declaring or re-exporting it
ChainTo(a, name, c) ==
    /\ a \in DOMAIN files
    /\ c \in DOMAIN files
    /\ DeclaredIn(c, name)
    /\ LET reached == Reach({a}, name)
       IN /\ {f \in reached : DeclaredIn(f, name)} = {c}
          /\ \A f \in reached : ~LocallyExportedIn(f, name)
    /\ Acyclic(a, name)

\* the file a query for an import from importSource starts in
StartFile(importSource) == openedFile(pathDirname(resolveModulePath(importSource)))

\* resolveExport is about to return from its top activation
Returning == pc = "visit" /\ Top.idx > Len(files[Top.filePath])

\* the rule has reported on an import from a blocked source
Reported == pc = "done" /\ SeqIncludes(blockedImportSources, node.source)

StripSuffix(s, suffix) ==
    IF Len(s) >= Len(suffix) /\ SubSeq(s, Len(s) - Len(suffix) + 1, Len(s)) = suffix
    THEN SubSeq(s, 1, Len(s) - Len(suffix))
    ELSE s

\* the import paths that name file f itself: with its extension, without it,
\* and, for an index file, its directory
OwnImportPaths(f) ==
    {pathToCorePath(f), StripSuffix(pathToCorePath(f), <<".", "ts">>),
     StripSuffix(pathToCorePath(f), <<"/">> \o indexTs)}

RECURSIVE LastMatch(_, _, _)
\* the allow-list entry matched last when the files of seq are visited in order
LastMatch(seq, allowed, acc) ==
    IF seq = <<>> THEN acc
    ELSE LET hits == {k \in 1..Len(allowed) : StartsWith(pathToCorePath(Head(seq)), allowed[k])}
         IN LastMatch(Tail(seq), allowed,
                      IF hits = {} THEN acc
                      ELSE allowed[CHOOSE k \in hits : \A l \in hits : l <= k])

Range(seq) == {seq[k] : k \in 1..Len(seq)}

-----------------------------------------------------------------------------
(* C1 *)

\* C1 as stated: every specifier the walker located is imported, in the fix,
\* from the path of the file that declares it, not from a barrel prefix.
C1_FixUsesDefiningPath ==
    (Reported /\ report.hasFix) =>
        \A w \in Range(walks) :
            w.resolvedPath # Undefined =>
                \E path \in OwnImportPaths(w.resolvedPath) :
                    Includes(report.fix, importStatement([original |-> w.original, path |-> path]))

\* C1 amended: every specifier the walker located and recorded a barrel for is
\* imported, in the fix, from that recorded barrel: an Allowed Barrel Set entry
\* that is a prefix of the package-relative path of a file the walk visited.
C1_FixUsesRecordedBarrel ==
    (Reported /\ report.hasFix) =>
        \A w \in Range(walks) :
            (w.resolvedPath # Undefined /\ w.barrelFile # Undefined) =>
                /\ Includes(report.fix,
                            importStatement([original |-> w.original, path |-> w.barrelFile]))
                /\ SeqIncludes(allowedBarrelFiles, w.barrelFile)
                /\ \E v \in Range(w.visited) : StartsWith(pathToCorePath(v), w.barrelFile)

\* Foo, declared in v3/foo.ts, is imported from the barrel @trigger.dev/core/v3/index
C1_Witness ==
    /\ Reported /\ report.hasFix
    /\ \E w \in Range(walks) :
          /\ w.resolvedPath = FooFile
          /\ w.barrelFile = baseName \o <<"/", "v3", "/", "index">>

-----------------------------------------------------------------------------
(* C2 *)

-----------------------------------------------------------------------------
(* C3 *)

\* C3: every call of resolveExport returns; it never recurses until the call
\* stack is exhausted.
C3_ResolveExportReturns == ~(pc = "threw" /\ err = "RangeError")

-----------------------------------------------------------------------------
(* C4 *)

\* C4: resolveExport of a file that declares the symbol returns that file's
\* own path, whatever the file re-exports.
C4_DeclarationWins ==
    (Returning /\ DeclaredIn(Top.filePath, specifier)) => Top.foundPath = Top.filePath

-----------------------------------------------------------------------------
(* C5 *)

-----------------------------------------------------------------------------
(* C6 *)

\* no file reachable from the start file of the query declares name, and none
\* exports a local binding of it
AbsentFrom(importSource, name) ==
    \A f \in Reach({StartFile(importSource)}, name) :
        ~DeclaredIn(f, name) /\ ~LocallyExportedIn(f, name)

\* C6: a query for a symbol that no file reachable from the start file declares
\* returns NotFound and raises nothing.
C6_AbsentIsNotFound ==
    /\ (pc = "threw" /\ stack # <<>>) => ~AbsentFrom(node.source, specifier)
    /\ Reported =>
           \A w \in Range(walks) :
               AbsentFrom(node.source, w.imported) => w.resolvedPath = Undefined

-----------------------------------------------------------------------------
(* C7 *)

\* C7 as stated: the fix holds one import statement per distinct resolved path.
C7_OneImportPerPath ==
    (Reported /\ report.hasFix) =>
        CountOf(report.fix, fixOpen) =
            Cardinality({specifierFixes[f].path : f \in 1..Len(specifierFixes)})

\* C7 amended: the fix holds one import statement per resolved specifier, each
\* importing that specifier alone; specifiers sharing a path are not grouped.
C7_OneImportPerSpecifier ==
    (Reported /\ report.hasFix) =>
        /\ CountOf(report.fix, fixOpen) = Len(specifierFixes)
        /\ \A f \in 1..Len(specifierFixes) :
               Includes(report.fix, importStatement(specifierFixes[f]))

\* two specifiers resolved to the same path
C7_Witness ==
    /\ Reported /\ report.hasFix
    /\ Len(specifierFixes) = 2
    /\ specifierFixes[1].path = specifierFixes[2].path

-----------------------------------------------------------------------------
(* C8 *)

\* the claim's reading of a key: the leading "./" stripped ("." is the root),
\* the rest joined to the package's root alias
KeyImportString(key) ==
    IF key = <<".">> THEN baseName
    ELSE IF StartsWith(key, <<".", "/">>)
         THEN baseName \o <<"/">> \o SubSeq(key, 3, Len(key))
         ELSE baseName \o <<"/">> \o key

\* C8 as stated: the allow-list is the import string of every export key, minus
\* the blocked import sources; exports {".", "./v3"} yield {"<alias>/v3"}.
C8_EveryKeyListed ==
    pc = "idle" =>
        /\ Range(allowedBarrelFiles) =
               {KeyImportString(key) : key \in Range(exports)} \ Range(blockedImportSources)
        /\ exports = <<keyRoot, keyV3>> => allowedBarrelFiles = <<baseName \o <<"/", "v3">> >>

\* C8 amended: the allow-list is the import string of every export key other
\* than package.json, minus the blocked import sources; it holds no blocked
\* import source, and exports {".", "./v3"} yield the empty list.
C8_EveryKeyButPackageJsonListed ==
    pc = "idle" =>
        /\ Range(allowedBarrelFiles) =
               {KeyImportString(key) :
                    key \in {q \in Range(exports) : q \notin {keyPackageJson, packageJsonKey}}}
               \ Range(blockedImportSources)
        /\ \A b \in Range(blockedImportSources) : b \notin Range(allowedBarrelFiles)
        /\ exports = <<keyRoot, keyV3>> => allowedBarrelFiles = <<>>

\* the root entry and the package.json entry are left out, a sub-path is kept
C8_Witness ==
    /\ pc = "idle"
    /\ Range(exports) \in {{keyRoot, keyV3Foo}, {keyPackageJson, keyV3Foo}}
    /\ allowedBarrelFiles = <<baseName \o <<"/", "v3", "/", "f", "oo">> >>

-----------------------------------------------------------------------------
(* C9 *)

\* C9: the fix of a fixable report holds the source text of every specifier of
\* the import it replaces.
C9_FixKeepsEveryBinding ==
    (Reported /\ report.hasFix) =>
        \A k \in 1..Len(node.specifiers) : Includes(report.fix, node.specifiers[k].original)

-----------------------------------------------------------------------------
(* C10 *)

\* C10 as stated: once a barrel is recorded during a walk, no later file and no
\* later allow-list entry overwrites it.
C10_FirstMatchKept ==
    [][(pc \in {"enter", "barrel", "visit"} /\ barrelFile # Undefined)
           => barrelFile' = barrelFile]_vars

\* C10 amended: the barrel a walk ends with is the last match, in the order the
\* files were visited and the entries listed; every match overwrites the
\* earlier ones.
C10_LastMatchKept ==
    /\ pc \in {"visit", "map", "done"} =>
           barrelFile = LastMatch(visited, allowedBarrelFiles, Undefined)
    /\ \A k \in 1..Len(walks) :
           walks[k].barrelFile = LastMatch(walks[k].visited, allowedBarrelFiles, Undefined)

\* v3/index.ts matched an entry first, v3/foo.ts another one later
C10_Witness ==
    /\ pc = "done"
    /\ \E w \in Range(walks) :
          /\ w.visited = <<V3IndexFile, FooFile>>
          /\ Len(allowedBarrelFiles) = 2
          /\ StartsWith(pathToCorePath(V3IndexFile), allowedBarrelFiles[1])
          /\ w.barrelFile = allowedBarrelFiles[2]

-----------------------------------------------------------------------------
(* C11 *)

\* p is an existing regular file
isFile(p) == p \in DOMAIN files

\* the first path of the sequence that is an existing regular file, if any
FirstFile(paths) ==
    LET hits == {k \in 1..Len(paths) : isFile(paths[k])}
    IN IF hits = {} THEN Undefined ELSE paths[CHOOSE k \in hits : \A l \in hits : k <= l]

\* the result the claim gives: the first regular file among the specifier as
\* written and with each extension; failing that, and the specifier naming a
\* directory, the first regular index file inside it; failing that, NotFound
ClaimedSourcePath(baseDir, sourcePath) ==
    LET asFile == FirstFile([e \in 1..Len(possibleExtensions) |->
                                pathResolve(baseDir, sourcePath \o possibleExtensions[e])])
        dirPath == pathResolve(baseDir, sourcePath)
        asIndex == FirstFile([x \in 1..Len(possibleIndexFiles) |->
                                 pathJoin(dirPath, possibleIndexFiles[x])])
    IN IF asFile # Undefined THEN asFile
       ELSE IF isDirectory(dirPath) THEN asIndex
            ELSE Undefined

\* C11: tryResolveSourcePath returns the first existing regular file in the
\* order specifier, specifier + .ts, .tsx, .js, .jsx, then, for a directory,
\* its index.ts, index.tsx, index.js, index.jsx; NotFound when none exists; and
\* what it returns is never the path of a directory.
C11_FirstExistingFile ==
    lookup.called =>
        /\ lookup.result = ClaimedSourcePath(lookup.baseDir, lookup.sourcePath)
        /\ lookup.result # Undefined => ~isDirectory(lookup.result)

=============================================================================
